---- MODULE Spec2Model ----
(***************************************************************************)
(* Model of the demo Global Value Numbering pass (src/src/GVN.cpp):        *)
(* ValueTable (lookupOrAddValue, getExpressionString, areEqual) and        *)
(* GVN::run (trivial-PHI pre-pass, main pass over post_order of the        *)
(* dominator tree, apply loop over toRemove).                              *)
(*                                                                         *)
(* A function body is a record                                             *)
(*   cfg    : name of the control-flow graph (blocks are 1..3, entry = 1)  *)
(*   addr   : block -> address of the block, <<high word, low word>>       *)
(*   body   : block -> sequence of instruction names in program order      *)
(*   inst   : instruction name -> [op, ty, ops, inb, ext]                  *)
(*   erased : instructions already detached by eraseFromParent             *)
(* Values are strings: "a","b" (i32 arguments), "p" (pointer argument),    *)
(* "z32","z64" (null constants), "i1".."i3" (instructions).                *)
(***************************************************************************)
EXTENDS Integers, Sequences, FiniteSets, TLC

\* ---------------------------------------------------------------- bounds
\* Depth of nested lookupOrAddValue frames the call stack can hold.
StackLimit == 6
\* Number of successive runs of the pass on the same function.
MaxRuns == 2

\* ------------------------------------------------------------ IR values
Blocks == {1, 2, 3}
EntryBlock == CHOOSE b \in Blocks : \A c \in Blocks : b <= c
InstNames == {"i1", "i2", "i3"}
Arguments == {"a", "b", "p"}
NullConstants == {"z32", "z64"}

\* Constant::isNullValue of a value (GVN.cpp:225-227).
isNullValue(V) == V \in NullConstants

\* isa<Instruction>(V)
isInstruction(V) == V \in InstNames

\* Value::getType of a value that is not an instruction.
TypeOfLeaf(V) ==
  CASE V \in {"a", "b", "z32"} -> "i32"
    [] V = "z64" -> "i64"
    [] OTHER -> "ptr"

\* Value::getType
TypeOf(f, V) == IF isInstruction(V) THEN f.inst[V].ty ELSE TypeOfLeaf(V)

\* Instruction::getOpcode, as the number streamed into the expression string.
Opcode(op) ==
  CASE op = "add" -> 13
    [] op = "sub" -> 15
    [] op = "load" -> 32
    [] op = "vload" -> 32
    [] op = "cast" -> 38
    [] op = "icmp" -> 53
    [] op = "phi" -> 55
    [] op = "call" -> 56
    [] op = "invoke" -> 5
    [] OTHER -> 94

\* Instruction kind tests used by lookupOrAddValue (GVN.cpp:238).
isBinaryOp(op) == op \in {"add", "sub"}
isCmpInst(op) == op = "icmp"
isLoadInst(op) == op \in {"load", "vload"}
isPHINode(op) == op = "phi"
isCommutative(op) == op = "add"

\* Instruction kind tests used by the eligibility skip (GVN.cpp:332-333).
\* A volatile load ("vload") is a LoadInst that may have side effects.
isTerminator(op) == op = "invoke"
mayHaveSideEffects(op) == op \in {"call", "invoke", "vload"}
isEHPad(op) == op = "landingpad"

\* LoadInst::getPointerAddressSpace: the only pointer value is "p".
PointerAddressSpace(f, I) == IF f.inst[I].ops[1] = "p" THEN 0 ELSE 1

\* ------------------------------------------------- CFG and dominator tree
\* The control-flow graphs of the modelled functions.
Edges(cfg) ==
  CASE cfg = "tri" -> {<<1, 2>>, <<1, 3>>, <<2, 3>>}
    [] cfg = "chain" -> {<<1, 2>>, <<2, 3>>}
    [] OTHER -> {<<1, 2>>, <<2, 2>>, <<2, 3>>}

CfgNames == {"tri", "chain", "loop"}

Preds(cfg, b) == {e[1] : e \in {x \in Edges(cfg) : x[2] = b}}

RECURSIVE ReachAvoiding(_, _, _)
\* Blocks reachable from S without entering block d.
ReachAvoiding(cfg, d, S) ==
  LET N == S \cup {e[2] : e \in {x \in Edges(cfg) : x[1] \in S /\ x[2] # d}}
  IN IF N = S THEN S ELSE ReachAvoiding(cfg, d, N)

\* DominatorTree::dominates(BasicBlock, BasicBlock): every path from the
\* entry to b passes through d.
BlockDominates(cfg, d, b) ==
  \/ d = b
  \/ d = EntryBlock
  \/ b \notin ReachAvoiding(cfg, d, {EntryBlock})

StrictDoms(cfg, b) == {d \in Blocks \ {b} : BlockDominates(cfg, d, b)}

\* Children of a dominator tree node: blocks whose immediate dominator is d.
DomChildren(cfg, d) ==
  {b \in Blocks : d \in StrictDoms(cfg, b) /\
                  \A e \in StrictDoms(cfg, b) : BlockDominates(cfg, e, d)}

RECURSIVE PostOrderOf(_, _)
RECURSIVE PostOrderOfAll(_, _)
\* post_order(DT.getRootNode()): the sequences a depth-first post-order walk
\* of the dominator tree can produce (the order of a node's children is the
\* dominator tree's own).
PostOrderOf(cfg, n) ==
  {s \o <<n>> : s \in PostOrderOfAll(cfg, DomChildren(cfg, n))}

PostOrderOfAll(cfg, C) ==
  IF C = {} THEN {<<>>}
  ELSE UNION {{s \o t : s \in PostOrderOf(cfg, c),
                        t \in PostOrderOfAll(cfg, C \ {c})} : c \in C}

\* Position of an instruction in the function body.
BlockOf(f, I) == CHOOSE b \in Blocks : \E k \in 1..Len(f.body[b]) : f.body[b][k] = I
IndexOf(f, I) == CHOOSE k \in 1..Len(f.body[BlockOf(f, I)]) : f.body[BlockOf(f, I)][k] = I
Attached(f) == UNION {{f.body[b][k] : k \in 1..Len(f.body[b])} : b \in Blocks}

\* DominatorTree::dominates(const Value *Def, const Instruction *User) as
\* called at GVN.cpp:385; every block of the modelled graphs is reachable.
Dominates(f, Def, User) ==
  IF ~isInstruction(Def) THEN TRUE
  ELSE IF Def = User THEN FALSE
  ELSE IF isTerminator(f.inst[Def].op) \/ isPHINode(f.inst[User].op)
       THEN BlockOf(f, Def) # BlockOf(f, User) /\
            BlockDominates(f.cfg, BlockOf(f, Def), BlockOf(f, User))
  ELSE IF BlockOf(f, Def) # BlockOf(f, User)
       THEN BlockDominates(f.cfg, BlockOf(f, Def), BlockOf(f, User))
  ELSE IndexOf(f, Def) < IndexOf(f, User)

\* ------------------------------------------------------------ ValueTable
\* m[k] = v, as DenseMap / unordered_map operator[] assignment.
MapPut(m, k, v) == [x \in DOMAIN m \cup {k} |-> IF x = k THEN v ELSE m[x]]

EmptyMap == [x \in {} |-> 0]

\* ValueTable() : nextValueNumber(1) with three empty maps.  log is a history
\* of the table, not a field of the program: the assignments to
\* valueNumbering in the order they were made, each with the value and its
\* number.
NewValueTable ==
  [valueNumbering |-> EmptyMap, expressionNumbering |-> EmptyMap,
   numberToValue |-> EmptyMap, nextValueNumber |-> 1, log |-> <<>>]

LogEntry(V, VN) == [v |-> V, n |-> VN]

\* CreateNewNumber: a fresh number, no expression recorded.
CreateNewNumber(vt, V) ==
  LET VN == vt.nextValueNumber
  IN [vt |-> [vt EXCEPT !.nextValueNumber = VN + 1,
                        !.valueNumbering = MapPut(vt.valueNumbering, V, VN),
                        !.numberToValue = MapPut(vt.numberToValue, VN, V),
                        !.log = Append(vt.log, LogEntry(V, VN))],
      vn |-> VN, ovf |-> FALSE]

\* Binding V to the number of a seen expression and recording V as the
\* representative of that number.
BindExistingOverwrite(vt, V, Expression) ==
  LET VN == vt.expressionNumbering[Expression]
  IN [vt |-> [vt EXCEPT !.valueNumbering = MapPut(vt.valueNumbering, V, VN),
                        !.numberToValue = MapPut(vt.numberToValue, VN, V),
                        !.log = Append(vt.log, LogEntry(V, VN))],
      vn |-> VN, ovf |-> FALSE]

\* The expression has been seen: bind V to its number, keep the representative.
BindExisting(vt, V, Expression) ==
  LET VN == vt.expressionNumbering[Expression]
  IN [vt |-> [vt EXCEPT !.valueNumbering = MapPut(vt.valueNumbering, V, VN),
                        !.log = Append(vt.log, LogEntry(V, VN))],
      vn |-> VN, ovf |-> FALSE]

\* New expression: mint a number and register expression, value, representative.
AssignNewExpression(vt, V, Expression) ==
  LET VN == vt.nextValueNumber
  IN [vt |-> [vt EXCEPT !.nextValueNumber = VN + 1,
                        !.expressionNumbering = MapPut(vt.expressionNumbering, Expression, VN),
                        !.valueNumbering = MapPut(vt.valueNumbering, V, VN),
                        !.numberToValue = MapPut(vt.numberToValue, VN, V),
                        !.log = Append(vt.log, LogEntry(V, VN))],
      vn |-> VN, ovf |-> FALSE]

\* The kinds lookupOrAddValue builds an expression for (GVN.cpp:238).
HasExpression(op) ==
  isBinaryOp(op) \/ isCmpInst(op) \/ isLoadInst(op) \/ isPHINode(op)

\* Fields streamed after the operands: the address space of a load, the
\* predicate of a compare.
ExpressionSuffix(f, I) ==
  (IF isLoadInst(f.inst[I].op) THEN <<PointerAddressSpace(f, I)>> ELSE <<>>) \o
  (IF isCmpInst(f.inst[I].op) THEN <<f.inst[I].ext>> ELSE <<>>)

\* (unsigned)(intptr_t)InBB: of the address of the block, a pair of 32-bit
\* words <<high, low>>, the conversion to unsigned keeps the low word.
BlockText(f, b) == f.addr[b][2]

\* What one operand contributes to the string: its value number, and for a
\* PHI the incoming block as well.
OperandText(f, I, i, vn) ==
  IF isPHINode(f.inst[I].op) THEN <<vn, BlockText(f, f.inst[I].inb[i])>> ELSE <<vn>>

RECURSIVE lookupOrAddValue(_, _, _, _)
RECURSIVE NumberOperands(_, _, _, _, _, _)

\* The operand loops of getExpressionString after operand i of I has been
\* numbered with result r: its text is appended and the loop goes on.
AfterOperand(f, I, i, str, depth, r) ==
  IF r.ovf THEN [vt |-> r.vt, str |-> str, ovf |-> TRUE]
  ELSE NumberOperands(f, r.vt, I, i + 1, str \o OperandText(f, I, i, r.vn), depth)

\* The operand loops of getExpressionString: operands i.. of I are numbered in
\* order, each through lookupOrAddValue, and their text appended to str.
NumberOperands(f, vt, I, i, str, depth) ==
  IF i > Len(f.inst[I].ops) THEN [vt |-> vt, str |-> str, ovf |-> FALSE]
  ELSE AfterOperand(f, I, i, str, depth,
                    lookupOrAddValue(f, vt, f.inst[I].ops[i], depth))

\* The tail of getExpressionString: the suffix fields follow the operands.
WithSuffix(f, I, r) ==
  IF r.ovf THEN r
  ELSE [vt |-> r.vt, str |-> r.str \o ExpressionSuffix(f, I), ovf |-> FALSE]

\* The expression string of I: the space-separated decimal numbers the code
\* streams, kept as the sequence of those numbers.
getExpressionString(f, vt, I, depth) ==
  WithSuffix(f, I, NumberOperands(f, vt, I, 1, <<Opcode(f.inst[I].op)>>, depth))

\* lookupOrAddValue once the expression string e of V is built
\* (GVN.cpp:243-255).
AfterExpression(V, e) ==
  IF e.ovf THEN [vt |-> e.vt, vn |-> 0, ovf |-> TRUE]
  ELSE IF e.str \in DOMAIN e.vt.expressionNumbering
       THEN BindExisting(e.vt, V, e.str)
       ELSE AssignNewExpression(e.vt, V, e.str)

\* lookupOrAddValue(V) in a frame at nesting depth `depth`.  The result is the
\* table afterwards, the number returned, and ovf = TRUE when the nesting
\* exceeded the call stack (the recursion has no other way to stop).
lookupOrAddValue(f, vt, V, depth) ==
  IF depth > StackLimit THEN [vt |-> vt, vn |-> 0, ovf |-> TRUE]
  ELSE IF isNullValue(V) THEN [vt |-> vt, vn |-> 0, ovf |-> FALSE]
  ELSE IF V \in DOMAIN vt.valueNumbering
       THEN [vt |-> vt, vn |-> vt.valueNumbering[V], ovf |-> FALSE]
  ELSE IF isInstruction(V) /\ HasExpression(f.inst[V].op)
       THEN AfterExpression(V, getExpressionString(f, vt, V, depth + 1))
  ELSE CreateNewNumber(vt, V)

\* The comparison of areEqual once both calls have returned.
CompareNumbers(x, y) ==
  [vt |-> y.vt, eq |-> (~y.ovf /\ x.vn = y.vn), ovf |-> y.ovf]

\* areEqual after its first call returned x: the second call, on V.
CompareWith(f, x, V) ==
  IF x.ovf THEN [vt |-> x.vt, eq |-> FALSE, ovf |-> TRUE]
  ELSE CompareNumbers(x, lookupOrAddValue(f, x.vt, V, 1))

\* areEqual(V1, V2): lookupOrAddValue(V1) == lookupOrAddValue(V2).  The two
\* calls are unsequenced operands of ==; lhsFirst is the order the build uses.
areEqual(f, vt, V1, V2, lf) ==
  CompareWith(f, lookupOrAddValue(f, vt, IF lf THEN V1 ELSE V2, 1),
              IF lf THEN V2 ELSE V1)

\* ------------------------------------------------------------- GVN::run
VARIABLES
  fn,                 \* the function body F, mutated in place
  before,             \* F as it was when the current run started
  order,              \* post_order(DT.getRootNode()) of F's dominator tree
  lhsFirst,           \* operand evaluation order of == in areEqual
  run,                \* 1 for the first run of the pass on F, 2 for the next
  pc,                 \* "prepass", "main", "apply", "done", "overflow", "crash"
  bi, ii,             \* main pass position: block order[bi], instruction ii
  VT,                 \* ValueTable VT
  toRemove,           \* SmallPtrSet toRemove
  replacements,       \* DenseMap replacements
  pending,            \* elements of toRemove the apply loop has not reached
  Changed,            \* bool Changed
  NumGVNInstructions, \* STATISTIC NumGVNInstructions
  NumGVNRedundant     \* STATISTIC NumGVNRedundant

vars == <<fn, before, order, lhsFirst, run, pc, bi, ii, VT, toRemove,
          replacements, pending, Changed, NumGVNInstructions, NumGVNRedundant>>

\* PHINode::getNumIncomingValues
NumIncoming(f, PN) == Len(f.inst[PN].ops)

PhiNodes(f) == {I \in Attached(f) : isPHINode(f.inst[I].op)}

\* First loop of run: the PHIs with at least one incoming value whose incoming
\* values are all the same Value* as the first.
TrivialPhis(f) ==
  {PN \in PhiNodes(f) :
     /\ NumIncoming(f, PN) # 0
     /\ \A i \in 2..NumIncoming(f, PN) : f.inst[PN].ops[i] = f.inst[PN].ops[1]}

\* The instruction the main pass is at.
Current == fn.body[order[bi]][ii]

\* Whether the main pass has an instruction at block index i, position k.
ValidPos(f, i, k) == i \in 1..Len(order) /\ k \in 1..Len(f.body[order[i]])

\* Block indices from i on whose block is not empty.
NonEmptyFrom(f, i) == {j \in i..Len(order) : Len(f.body[order[j]]) > 0}

MinOf(S) == CHOOSE x \in S : \A y \in S : x <= y

\* The two nested loops of the main pass: the position after (i, k), or
\* block index Len(order) + 1 when the walk is over.
NextPos(f, i, k) ==
  IF i \in 1..Len(order) /\ k < Len(f.body[order[i]]) THEN <<i, k + 1>>
  ELSE IF NonEmptyFrom(f, i + 1) = {} THEN <<Len(order) + 1, 1>>
  ELSE <<MinOf(NonEmptyFrom(f, i + 1)), 1>>

\* Skip non-eligible instructions (GVN.cpp:332-334).
Ineligible(f, Inst) ==
  \/ isTerminator(f.inst[Inst].op)
  \/ mayHaveSideEffects(f.inst[Inst].op)
  \/ isEHPad(f.inst[Inst].op)

RECURSIVE PhiAllSame(_, _, _, _, _)

\* The loop at GVN.cpp:351-357 after areEqual returned r for incoming value i.
AfterAreEqual(f, PN, i, lf, r) ==
  IF r.ovf THEN [vt |-> r.vt, same |-> FALSE, ovf |-> TRUE]
  ELSE IF ~r.eq THEN [vt |-> r.vt, same |-> FALSE, ovf |-> FALSE]
  ELSE PhiAllSame(f, r.vt, PN, i + 1, lf)

\* The loop at GVN.cpp:351-357 from incoming value i on: AllSame stays true
\* while each incoming value is CommonValue or areEqual to it.
PhiAllSame(f, vt, PN, i, lf) ==
  IF i > NumIncoming(f, PN) THEN [vt |-> vt, same |-> TRUE, ovf |-> FALSE]
  ELSE IF f.inst[PN].ops[i] = f.inst[PN].ops[1]
       THEN PhiAllSame(f, vt, PN, i + 1, lf)
  ELSE AfterAreEqual(f, PN, i, lf,
                     areEqual(f, vt, f.inst[PN].ops[i], f.inst[PN].ops[1], lf))

\* What the PHI handling of the main pass decides for Inst: for a PHI with
\* incoming values, the result of the AllSame loop; otherwise nothing.
PhiCheck(f, vt, Inst, lf) ==
  IF isPHINode(f.inst[Inst].op) /\ NumIncoming(f, Inst) # 0
  THEN PhiAllSame(f, vt, Inst, 2, lf)
  ELSE [vt |-> vt, same |-> FALSE, ovf |-> FALSE]

\* The redundancy test without the dominance query.
IsRedundantNoDominance(f, vt, Inst, VN) ==
  /\ VN \in DOMAIN vt.numberToValue
  /\ vt.numberToValue[VN] # Inst
  /\ isInstruction(vt.numberToValue[VN])

\* The redundancy test of GVN.cpp:380-385 for Inst numbered VN.
IsRedundant(f, vt, Inst, VN) ==
  /\ VN \in DOMAIN vt.numberToValue
  /\ vt.numberToValue[VN] # Inst
  /\ isInstruction(vt.numberToValue[VN])
  /\ Dominates(f, vt.numberToValue[VN], Inst)

\* toRemove.insert(I); replacements[I] = R; ++NumGVNRedundant; Changed = true.
Schedule(I, R) ==
  /\ toRemove' = toRemove \cup {I}
  /\ replacements' = MapPut(replacements, I, R)
  /\ NumGVNRedundant' = NumGVNRedundant + 1
  /\ Changed' = TRUE

\* Move the main pass to the next instruction, or on to the apply loop.
Advance ==
  LET n == NextPos(fn, bi, ii)
  IN /\ bi' = n[1]
     /\ ii' = n[2]
     /\ pc' = IF n[1] > Len(order) THEN "apply" ELSE "main"
     /\ pending' = IF n[1] > Len(order) THEN toRemove' ELSE pending

\* First pass (GVN.cpp:292-320): every trivial PHI is scheduled for
\* replacement by its first incoming value.
PrePass ==
  /\ pc = "prepass"
  /\ toRemove' = TrivialPhis(fn)
  /\ replacements' = [PN \in TrivialPhis(fn) |-> fn.inst[PN].ops[1]]
  /\ NumGVNRedundant' = NumGVNRedundant + Cardinality(TrivialPhis(fn))
  /\ Changed' = (TrivialPhis(fn) # {})
  /\ LET n == NextPos(fn, 0, 0)
     IN /\ bi' = n[1]
        /\ ii' = n[2]
        /\ pc' = IF n[1] > Len(order) THEN "apply" ELSE "main"
        /\ pending' = IF n[1] > Len(order) THEN toRemove' ELSE pending
  /\ UNCHANGED <<fn, before, order, lhsFirst, run, VT, NumGVNInstructions>>

\* Main pass, a terminator, side-effecting instruction or EH pad: continue.
SkipIneligible ==
  /\ pc = "main"
  /\ Ineligible(fn, Current)
  /\ UNCHANGED <<fn, before, order, lhsFirst, run, VT, toRemove, replacements,
                 Changed, NumGVNInstructions, NumGVNRedundant>>
  /\ Advance

\* Main pass, a PHI with no incoming values: continue (GVN.cpp:344-345).
SkipEmptyPhi ==
  /\ pc = "main"
  /\ ~Ineligible(fn, Current)
  /\ isPHINode(fn.inst[Current].op)
  /\ NumIncoming(fn, Current) = 0
  /\ UNCHANGED <<fn, before, order, lhsFirst, run, VT, toRemove, replacements,
                 Changed, NumGVNInstructions, NumGVNRedundant>>
  /\ Advance

\* The value numbering of Inst after its PHI check returned c: none when the
\* PHI collapses or the check did not return.
NumberAfter(f, Inst, c) ==
  IF c.ovf \/ c.same THEN [vt |-> c.vt, vn |-> 0, ovf |-> c.ovf]
  ELSE lookupOrAddValue(f, c.vt, Inst, 1)

\* One iteration of the main pass on an eligible Inst: kind "collapse" (a PHI
\* scheduled for replacement by CommonValue), "number" (Inst counted and
\* numbered vn, table vt) or "overflow" (a lookupOrAddValue did not return;
\* counted says whether Inst had been counted before).
Outcome(c, r) ==
  IF c.ovf THEN [kind |-> "overflow", vt |-> c.vt, vn |-> 0, counted |-> FALSE]
  ELSE IF c.same THEN [kind |-> "collapse", vt |-> c.vt, vn |-> 0, counted |-> FALSE]
  ELSE IF r.ovf THEN [kind |-> "overflow", vt |-> r.vt, vn |-> 0, counted |-> TRUE]
  ELSE [kind |-> "number", vt |-> r.vt, vn |-> r.vn, counted |-> TRUE]

VisitWith(f, Inst, c) == Outcome(c, NumberAfter(f, Inst, c))

Visit(f, vt, Inst, lf) == VisitWith(f, Inst, PhiCheck(f, vt, Inst, lf))

\* The main pass is at an instruction it neither skips nor continues past.
AtEligible ==
  /\ pc = "main"
  /\ ~Ineligible(fn, Current)
  /\ ~(isPHINode(fn.inst[Current].op) /\ NumIncoming(fn, Current) = 0)

CollapseWith(o) ==
  /\ o.kind = "collapse"
  /\ VT' = o.vt
  /\ Schedule(Current, fn.inst[Current].ops[1])

\* Main pass, a PHI whose incoming values are all CommonValue or areEqual to
\* it: scheduled for replacement by CommonValue (GVN.cpp:360-368).
CollapsePhi ==
  /\ AtEligible
  /\ CollapseWith(Visit(fn, VT, Current, lhsFirst))
  /\ Advance
  /\ UNCHANGED <<fn, before, order, lhsFirst, run, NumGVNInstructions>>

NumberWith(o) ==
  /\ o.kind = "number"
  /\ VT' = o.vt
  /\ NumGVNInstructions' = NumGVNInstructions + 1
  /\ IF IsRedundant(fn, o.vt, Current, o.vn)
     THEN Schedule(Current, o.vt.numberToValue[o.vn])
     ELSE UNCHANGED <<toRemove, replacements, NumGVNRedundant, Changed>>

\* Main pass, any other eligible instruction (a PHI that did not collapse
\* included): counted, numbered, and scheduled when redundant
\* (GVN.cpp:373-395).
NumberInstruction ==
  /\ AtEligible
  /\ NumberWith(Visit(fn, VT, Current, lhsFirst))
  /\ Advance
  /\ UNCHANGED <<fn, before, order, lhsFirst, run>>

OverflowWith(o) ==
  /\ o.kind = "overflow"
  /\ NumGVNInstructions' =
       IF o.counted THEN NumGVNInstructions + 1 ELSE NumGVNInstructions

\* Main pass, the recursion of lookupOrAddValue does not return: the call
\* stack is exhausted and the process dies inside run.
StackOverflow ==
  /\ AtEligible
  /\ OverflowWith(Visit(fn, VT, Current, lhsFirst))
  /\ pc' = "overflow"
  /\ UNCHANGED <<fn, before, order, lhsFirst, run, bi, ii, VT, toRemove,
                 replacements, pending, Changed, NumGVNRedundant>>

\* I->replaceAllUsesWith(R): every operand I of every instruction becomes R.
replaceAllUsesWith(f, I, R) ==
  [f EXCEPT !.inst = [J \in DOMAIN f.inst |->
     [f.inst[J] EXCEPT !.ops = [k \in DOMAIN f.inst[J].ops |->
        IF f.inst[J].ops[k] = I THEN R ELSE f.inst[J].ops[k]]]]]

\* I->eraseFromParent(): I leaves its block and is destroyed.
eraseFromParent(f, I) ==
  [f EXCEPT !.body = [b \in Blocks |-> SelectSeq(f.body[b], LAMBDA x : x # I)],
            !.erased = f.erased \cup {I}]

\* One iteration of the apply loop (GVN.cpp:400-408), for an element I of
\* toRemove whose replacement is still part of the function.  The iteration
\* order of the SmallPtrSet is not fixed by the program.
ApplyOne ==
  /\ pc = "apply"
  /\ \E I \in pending :
       /\ I \in DOMAIN replacements
       /\ replacements[I] \notin fn.erased
       /\ fn' = eraseFromParent(replaceAllUsesWith(fn, I, replacements[I]), I)
       /\ pending' = pending \ {I}
  /\ UNCHANGED <<before, order, lhsFirst, run, pc, bi, ii, VT, toRemove,
                 replacements, Changed, NumGVNInstructions, NumGVNRedundant>>

\* One iteration of the apply loop for an element whose replacement has been
\* erased by an earlier iteration: replacements[I] is a dangling pointer, and
\* printing it and redirecting uses to it is undefined behaviour.  Either the
\* uses of I end up referencing the erased instruction, or the process dies.
ApplyDangling ==
  /\ pc = "apply"
  /\ \E I \in pending :
       /\ I \in DOMAIN replacements
       /\ replacements[I] \in fn.erased
       /\ \/ /\ fn' = eraseFromParent(replaceAllUsesWith(fn, I, replacements[I]), I)
             /\ pending' = pending \ {I}
             /\ pc' = pc
          \/ /\ pc' = "crash"
             /\ UNCHANGED <<fn, pending>>
  /\ UNCHANGED <<before, order, lhsFirst, run, bi, ii, VT, toRemove,
                 replacements, Changed, NumGVNInstructions, NumGVNRedundant>>

\* The apply loop is over: run reports and returns (GVN.cpp:410-423).
Finish ==
  /\ pc = "apply"
  /\ pending = {}
  /\ pc' = "done"
  /\ UNCHANGED <<fn, before, order, lhsFirst, run, bi, ii, VT, toRemove,
                 replacements, pending, Changed, NumGVNInstructions,
                 NumGVNRedundant>>

\* Operands that reference an erased instruction.
Dangling(f) ==
  {I \in Attached(f) : \E k \in DOMAIN f.inst[I].ops : f.inst[I].ops[k] \in f.erased}

\* The pass is run again on the function the previous run left: a fresh
\* ValueTable, toRemove and replacements (GVN.cpp:276-288); the statistics
\* are process-wide and keep counting.  A run that reported no change left
\* the function as it found it, and a further run would repeat it step for
\* step, so the pass is run again after a run that reported a change.
RunAgain ==
  /\ pc = "done"
  /\ run < MaxRuns
  /\ Changed
  /\ Dangling(fn) = {}
  /\ run' = run + 1
  /\ pc' = "prepass"
  /\ before' = fn
  /\ VT' = NewValueTable
  /\ toRemove' = {}
  /\ replacements' = EmptyMap
  /\ pending' = {}
  /\ Changed' = FALSE
  /\ bi' = 0
  /\ ii' = 0
  /\ UNCHANGED <<fn, order, lhsFirst, NumGVNInstructions, NumGVNRedundant>>

\* ------------------------------------------------- the functions analysed
InstOrder == <<"i1", "i2", "i3">>

\* Instructions named before n.
EarlierInsts(n) ==
  {InstOrder[k] : k \in {j \in 1..Len(InstOrder) :
                           \E m \in (j + 1)..Len(InstOrder) : InstOrder[m] = n}}

MkInst(op, ty, ops, inb, ext) ==
  [op |-> op, ty |-> ty, ops |-> ops, inb |-> inb, ext |-> ext]

\* Additions in either operand order: of the two arguments, of an earlier
\* instruction and an argument, of two earlier instructions.
AddForms(n) ==
  {MkInst("add", "i32", <<x, y>>, <<>>, 0) :
     <<x, y>> \in {q \in ({"a", "b"} \cup EarlierInsts(n)) \X ({"a", "b"} \cup EarlierInsts(n)) :
                    q[1] # q[2] /\ ("b" \in {q[1], q[2]} => "a" \in {q[1], q[2]})}}

\* Instructions the first two positions can hold besides additions: a
\* subtraction, a load and a volatile load through the pointer argument, a
\* call.
CommonForms ==
  {MkInst("sub", "i32", <<"a", "b">>, <<>>, 0),
   MkInst("load", "i32", <<"p">>, <<>>, 0),
   MkInst("vload", "i32", <<"p">>, <<>>, 0),
   MkInst("call", "i32", <<>>, <<>>, 0)}

\* Instructions lookupOrAddValue builds no expression for (a cast, an invoke,
\* a landing pad), a compare (predicate eq = 32), an addition of null
\* constants.
FirstForms ==
  {MkInst("cast", "i32", <<"a">>, <<>>, 0),
   MkInst("invoke", "i32", <<>>, <<>>, 0),
   MkInst("landingpad", "i32", <<>>, <<>>, 0),
   MkInst("icmp", "i1", <<"a", "b">>, <<>>, 32),
   MkInst("add", "i32", <<"z32", "z32">>, <<>>, 0)}

\* The same shapes with another type or another extra field: a load and an
\* addition of null constants of the other width, a compare with predicate
\* ne = 33.
SecondForms ==
  {MkInst("load", "i64", <<"p">>, <<>>, 0),
   MkInst("add", "i64", <<"z64", "z64">>, <<>>, 0),
   MkInst("icmp", "i1", <<"a", "b">>, <<>>, 33)}

\* The last position holds a further addition or load, or a PHI.
ThirdForms ==
  {MkInst("load", "i32", <<"p">>, <<>>, 0)}

\* The orders in which a PHI can list the predecessors P of its block.
PredSeqs(P) ==
  {s \in [1..Cardinality(P) -> P] : \A i, j \in DOMAIN s : s[i] = s[j] => i = j}

\* PHIs of instruction n in a block with predecessors P: one incoming value
\* per predecessor, an argument or another instruction; a block without
\* predecessors holds the PHI with no incoming values.
PhiForms(n, P) ==
  {MkInst("phi", "i32", v, s, 0) :
     v \in [1..Cardinality(P) -> {"a"} \cup (InstNames \ {n})],
     s \in PredSeqs(P)}

Forms(n, P) ==
  AddForms(n) \cup PhiForms(n, P) \cup
  (IF n = "i1" THEN CommonForms \cup FirstForms
   ELSE IF n = "i2" THEN CommonForms \cup SecondForms
   ELSE ThirdForms)

\* Where i1, i2, i3 are laid out, in this order, in each control-flow graph.
Layouts ==
  {<<"tri", <<1, 1, 3>>>>, <<"tri", <<1, 2, 3>>>>, <<"tri", <<2, 2, 3>>>>,
   <<"tri", <<2, 3, 3>>>>,
   <<"chain", <<1, 1, 1>>>>, <<"chain", <<1, 1, 2>>>>, <<"chain", <<1, 2, 3>>>>,
   <<"chain", <<2, 3, 3>>>>,
   <<"loop", <<2, 2, 2>>>>, <<"loop", <<1, 2, 2>>>>, <<"loop", <<2, 2, 3>>>>}

\* Where the blocks are allocated: every block has an address of its own,
\* written as <<high word, low word>>.  Within 4 GiB the low words differ; in
\* a larger heap two blocks can lie a multiple of 2^32 apart.
BlockAddresses ==
  {[b \in Blocks |-> <<0, b>>],
   [b \in Blocks |-> IF b = 2 THEN <<1, 1>> ELSE <<0, b>>]}

\* The allocations told apart for the instructions ins: the addresses reach
\* the pass only through the incoming blocks of PHIs, so they are varied
\* when two PHIs list incoming blocks.
AddressesFor(ins) ==
  IF Cardinality({n \in InstNames : isPHINode(ins[n].op) /\ ins[n].inb # <<>>}) >= 2
  THEN BlockAddresses
  ELSE {[b \in Blocks |-> <<0, b>>]}

MkFunction(cfg, pl, ins, ad) ==
  [cfg |-> cfg,
   addr |-> ad,
   body |-> [b \in Blocks |->
               SelectSeq(InstOrder, LAMBDA n : \E k \in 1..Len(InstOrder) :
                                                 InstOrder[k] = n /\ pl[k] = b)],
   inst |-> ins,
   erased |-> {}]

\* Operand and result types agree (binary operations, PHIs).
WellTyped(f) ==
  \A I \in InstNames :
    (isBinaryOp(f.inst[I].op) \/ isPHINode(f.inst[I].op)) =>
      \A k \in DOMAIN f.inst[I].ops : TypeOf(f, f.inst[I].ops[k]) = f.inst[I].ty

\* SSA form: PHIs lead their block, a definition dominates its uses, and an
\* incoming value of a PHI is available at the end of the incoming block.
WellFormed(f) ==
  /\ \A b \in Blocks : \A k \in 2..Len(f.body[b]) :
       isPHINode(f.inst[f.body[b][k]].op) => isPHINode(f.inst[f.body[b][k - 1]].op)
  /\ \A I \in InstNames : \A k \in DOMAIN f.inst[I].ops :
       LET V == f.inst[I].ops[k]
       IN isInstruction(V) =>
            IF isPHINode(f.inst[I].op)
            THEN BlockDominates(f.cfg, BlockOf(f, V), f.inst[I].inb[k])
            ELSE Dominates(f, V, I)

\* Whether run reaches a call of areEqual on f: some PHI lists two different
\* incoming values.
ComparesValues(f) ==
  \E PN \in InstNames :
    isPHINode(f.inst[PN].op) /\
    \E k \in DOMAIN f.inst[PN].ops : f.inst[PN].ops[k] # f.inst[PN].ops[1]

Init ==
  /\ \E lay \in Layouts :
       \E x1 \in Forms("i1", Preds(lay[1], lay[2][1])),
          x2 \in Forms("i2", Preds(lay[1], lay[2][2])),
          x3 \in Forms("i3", Preds(lay[1], lay[2][3])) :
         \E ad \in AddressesFor([i1 |-> x1, i2 |-> x2, i3 |-> x3]) :
           fn = MkFunction(lay[1], lay[2], [i1 |-> x1, i2 |-> x2, i3 |-> x3], ad)
  /\ WellTyped(fn)
  /\ WellFormed(fn)
  /\ before = fn
  /\ order \in PostOrderOf(fn.cfg, EntryBlock)
  /\ lhsFirst \in (IF ComparesValues(fn) THEN BOOLEAN ELSE {TRUE})
  /\ run = 1
  /\ pc = "prepass"
  /\ bi = 0
  /\ ii = 0
  /\ VT = NewValueTable
  /\ toRemove = {}
  /\ replacements = EmptyMap
  /\ pending = {}
  /\ Changed = FALSE
  /\ NumGVNInstructions = 0
  /\ NumGVNRedundant = 0

Next ==
  \/ PrePass
  \/ SkipIneligible
  \/ SkipEmptyPhi
  \/ CollapsePhi
  \/ NumberInstruction
  \/ StackOverflow
  \/ ApplyOne
  \/ ApplyDangling
  \/ Finish
  \/ RunAgain

Spec == Init /\ [][Next]_vars

\* ------------------------------------------------------------ properties
\* Values that have a value number in the table.
Numbered == DOMAIN VT.valueNumbering

NumberOf(V) == VT.valueNumbering[V]

\* The representative recorded for the value number of V.
RepresentativeOf(V) == VT.numberToValue[NumberOf(V)]

NonPhi(f, I) == isInstruction(I) /\ ~isPHINode(f.inst[I].op)

\* C1 (non-dominance guard): a non-PHI instruction N is scheduled only for
\* replacement by the representative R of its value number, R is another
\* instruction and R dominates N; and when a numbered non-PHI N has a
\* representative R other than itself that does not dominate it, neither N
\* nor R is scheduled for removal.
C1_NonDominanceGuard ==
  /\ \A N \in toRemove :
       NonPhi(before, N) =>
         /\ N \in Numbered
         /\ replacements[N] = RepresentativeOf(N)
         /\ replacements[N] # N
         /\ Dominates(before, replacements[N], N)
  /\ \A N \in Numbered :
       (NonPhi(before, N) /\ RepresentativeOf(N) # N /\
        ~Dominates(before, RepresentativeOf(N), N)) =>
         (N \notin toRemove /\ RepresentativeOf(N) \notin toRemove)

\* Two identical operations in blocks neither of which dominates the other
\* share a value number at the end of a run that visited both.
C1_Witness ==
  /\ pc = "done"
  /\ \E N \in Numbered :
       /\ NonPhi(before, N)
       /\ ~Ineligible(before, N)
       /\ RepresentativeOf(N) # N
       /\ BlockOf(before, RepresentativeOf(N)) # BlockOf(before, N)
       /\ ~Dominates(before, RepresentativeOf(N), N)
       /\ ~Dominates(before, N, RepresentativeOf(N))
       /\ N \notin toRemove

\* Instructions I and J apply the same commutative operation to the same two
\* operands in opposite orders.
Swapped(f, I, J) ==
  /\ I # J
  /\ isCommutative(f.inst[I].op)
  /\ f.inst[J].op = f.inst[I].op
  /\ f.inst[J].ops = <<f.inst[I].ops[2], f.inst[I].ops[1]>>

\* C2 (commutativity): op(a, b) and op(b, a) get the same value number, and
\* when one dominates the other the dominated one is scheduled for removal
\* by the end of the main pass.
C2_Commutativity ==
  \A I, J \in Attached(before) :
    Swapped(before, I, J) =>
      /\ (I \in Numbered /\ J \in Numbered) => NumberOf(I) = NumberOf(J)
      /\ (pc \in {"apply", "done"} /\ Dominates(before, I, J)) => J \in toRemove

\* C3 (termination): run never dies in the recursion of lookupOrAddValue; it
\* always gets to return a verdict.
C3_Terminates == pc # "overflow"

\* C4 (apply-phase safety): when the main pass is over no replacement target
\* is itself scheduled for removal; the apply loop never redirects uses to an
\* erased instruction, and afterwards no instruction references an erased one.
C4_ApplySafe ==
  /\ pc \in {"apply", "done"} =>
       \A I \in DOMAIN replacements : replacements[I] \notin toRemove
  /\ pc # "crash"
  /\ Dangling(fn) = {}

\* C5 (type mismatch is a hard inequality): two numbered values of different
\* types never have the same value number.
C5_TypeMismatch ==
  \A X, Y \in Numbered :
    TypeOf(before, X) # TypeOf(before, Y) => NumberOf(X) # NumberOf(Y)

\* C6 (side-effect exclusion): no terminator, side-effecting instruction or
\* EH pad is scheduled for removal, and such an instruction, once numbered,
\* has a number no other value shares and no expression is recorded for.
C6_SideEffectExclusion ==
  /\ \A I \in toRemove : ~Ineligible(before, I)
  /\ \A I \in Numbered :
       (isInstruction(I) /\ Ineligible(before, I)) =>
         /\ \A J \in Numbered \ {I} : NumberOf(J) # NumberOf(I)
         /\ \A e \in DOMAIN VT.expressionNumbering :
              VT.expressionNumbering[e] # NumberOf(I)

\* C7 (idempotence): a run on the function a previous run produced schedules
\* nothing and reports "unchanged".
C7_Idempotent == run > 1 => (toRemove = {} /\ ~Changed)

\* The value a scheduled node's uses end at when the replacement of a
\* replacement is followed, n steps at most.
RECURSIVE FinalTarget(_, _)
FinalTarget(X, n) ==
  IF n = 0 \/ X \notin toRemove THEN X ELSE FinalTarget(replacements[X], n - 1)

\* C8 (trivial-merge collapse): once the pre-pass is over, and before any
\* value number exists, every PHI whose incoming values are all the same
\* value X is scheduled for replacement by X; when run returns the PHI is
\* erased and each of its former uses references X (the value X was itself
\* replaced by, where X was scheduled too); a PHI without incoming values is
\* never scheduled.
C8_TrivialMergeCollapse ==
  /\ pc # "prepass" =>
       \A PN \in TrivialPhis(before) :
         PN \in toRemove /\ replacements[PN] = before.inst[PN].ops[1]
  /\ (pc = "main" /\ <<bi, ii>> = NextPos(before, 0, 0)) => VT = NewValueTable
  /\ pc = "done" =>
       \A PN \in TrivialPhis(before) :
         /\ PN \in fn.erased
         /\ \A U \in Attached(fn) : \A k \in DOMAIN before.inst[U].ops :
              before.inst[U].ops[k] = PN =>
                fn.inst[U].ops[k] =
                  FinalTarget(before.inst[PN].ops[1], Cardinality(InstNames))
  /\ \A PN \in PhiNodes(before) : NumIncoming(before, PN) = 0 => PN \notin toRemove

\* C9 (definition-before-use traversal): when the main pass is in a block,
\* every block that strictly dominates it has been visited before.
C9_DominatorsFirst ==
  pc = "main" =>
    \A d \in StrictDoms(fn.cfg, order[bi]) : \E k \in 1..(bi - 1) : order[k] = d

\* C10 (write-once value-number table): within a run each value is assigned a
\* number once and the table holds exactly those assignments; looking up a
\* numbered value returns its number and leaves the table as it is; the
\* representative of a number is the first value assigned it; every number
\* is at least 1, below the counter, and a number assigned for the first
\* time is greater than every number assigned before.
C10_WriteOnceTable ==
  /\ \A i, j \in DOMAIN VT.log : VT.log[i].v = VT.log[j].v => i = j
  /\ Numbered = {VT.log[i].v : i \in DOMAIN VT.log}
  /\ \A i \in DOMAIN VT.log : NumberOf(VT.log[i].v) = VT.log[i].n
  /\ \A V \in Numbered :
       lookupOrAddValue(before, VT, V, 1) = [vt |-> VT, vn |-> NumberOf(V), ovf |-> FALSE]
  /\ DOMAIN VT.numberToValue = {VT.log[i].n : i \in DOMAIN VT.log}
  /\ \A i \in DOMAIN VT.log :
       /\ VT.log[i].n >= 1
       /\ VT.log[i].n < VT.nextValueNumber
       /\ (\A j \in 1..(i - 1) : VT.log[j].n # VT.log[i].n) =>
            /\ VT.numberToValue[VT.log[i].n] = VT.log[i].v
            /\ \A j \in 1..(i - 1) : VT.log[j].n < VT.log[i].n

\* A run ended with two values sharing a number, after lookups of values
\* that were numbered already.
C10_Witness ==
  /\ pc = "done"
  /\ Len(VT.log) >= 4
  /\ \E i, j \in DOMAIN VT.log : i < j /\ VT.log[i].n = VT.log[j].n

\* The number lookupOrAddValue returns for an operand that has one.
OperandNumber(V) == IF isNullValue(V) THEN 0 ELSE NumberOf(V)

\* The set of (incoming value number, source block) pairs of PHI PN.
PairSet(f, PN) ==
  {<<OperandNumber(f.inst[PN].ops[k]), f.inst[PN].inb[k]>> : k \in DOMAIN f.inst[PN].ops}

\* PHIs of the current run that have a value number.
NumberedPhis ==
  {PN \in Numbered : isInstruction(PN) /\ isPHINode(before.inst[PN].op)}

\* C11 (PHI signatures over sets of pairs): two numbered PHIs have the same
\* value number exactly when their sets of (incoming value number, source
\* block) pairs are equal, in whatever order each lists its incoming edges.
C11_PhiPairSets ==
  \A P, Q \in NumberedPhis :
    (PairSet(before, P) = PairSet(before, Q)) <=> (NumberOf(P) = NumberOf(Q))

\* Listing the same pairs in another order gives another value number.
C11_OrderIndependent ==
  \A P, Q \in NumberedPhis :
    (PairSet(before, P) = PairSet(before, Q)) => (NumberOf(P) = NumberOf(Q))

\* Different sets of pairs give different value numbers.
C11_BlocksDistinguished ==
  \A P, Q \in NumberedPhis :
    (NumberOf(P) = NumberOf(Q)) => (PairSet(before, P) = PairSet(before, Q))

\* R is a constant or parameter, or an instruction whose definition
\* dominates the position of N: in a block that strictly dominates N's
\* block, or earlier in N's own block.
AvailableAt(f, R, N) ==
  \/ ~isInstruction(R)
  \/ /\ BlockOf(f, R) # BlockOf(f, N)
     /\ BlockDominates(f.cfg, BlockOf(f, R), BlockOf(f, N))
  \/ /\ BlockOf(f, R) = BlockOf(f, N)
     /\ IndexOf(f, R) < IndexOf(f, N)

\* C12 (replacements are available): the replacement of every scheduled
\* node, congruent PHIs included, is a constant or parameter or an
\* instruction that dominates the node it replaces.
C12_ReplacementAvailable ==
  \A I \in toRemove : AvailableAt(before, replacements[I], I)

\* C13 (elimination counter): toRemove.insert and ++NumGVNRedundant go
\* together, so a node scheduled once counts once: the counter stands at the
\* number of instructions erased by earlier runs plus the number scheduled
\* by this one, and when run returns it equals the number of instructions
\* erased so far.
C13_CounterConsistent ==
  /\ NumGVNRedundant = Cardinality(before.erased) + Cardinality(toRemove)
  /\ pc = "done" => NumGVNRedundant = Cardinality(fn.erased)

====
